---- MODULE Spec2Model ----
(***************************************************************************)
(* Model of the comparison pipeline of aws-crt-benchmarker                 *)
(* (scripts/py/compare.py): payload parsing, the sequencing of the         *)
(* external steps of both clients, metrics extraction and reporting; and   *)
(* of the task expansion of scripts/py/generate-tmp-workload.py and        *)
(* scripts/py/build-workloads.py.                                          *)
(*                                                                         *)
(* A Python str is a sequence of one-character strings.  A Python dict is  *)
(* a record, `k in d` is  k \in DOMAIN d.  A call that may raise returns a *)
(* record whose field raised tells whether it did.                         *)
(***************************************************************************)
EXTENDS Integers, Sequences, FiniteSets, TLC

(***************************************************************************)
(* Bounds of the model.                                                    *)
(***************************************************************************)
\* longest list of name tokens given to --payload
MaxTokens == 2
\* longest JSON array read from a payload file
MaxItems == 2
\* exit codes of an external process are 0..MaxExit
MaxExit == 1

(***************************************************************************)
(* Strings.                                                                *)
(***************************************************************************)
Digits == <<"0", "1", "2", "3", "4", "5", "6", "7", "8", "9">>

IsDigit(c) == \E d \in 1..10 : Digits[d] = c

DigitVal(c) == (CHOOSE d \in 1..10 : Digits[d] = c) - 1

StartsWith(s, p) == Len(s) >= Len(p) /\ SubSeq(s, 1, Len(p)) = p

EndsWith(s, p) == Len(s) >= Len(p) /\ SubSeq(s, Len(s) - Len(p) + 1, Len(s)) = p

\* s[k:] of Python, k counted from 0
Drop(s, k) == SubSeq(s, k + 1, Len(s))

\* str.replace(old, ""): every non-overlapping occurrence, left to right
RECURSIVE Remove(_, _)
Remove(s, old) ==
    IF s = <<>> THEN <<>>
    ELSE IF StartsWith(s, old) THEN Remove(Drop(s, Len(old)), old)
    ELSE <<Head(s)>> \o Remove(Tail(s), old)

\* str.split(sep) for a one-character separator
RECURSIVE Split(_, _)
Split(s, sep) ==
    IF \A i \in 1..Len(s) : s[i] # sep THEN <<s>>
    ELSE LET k == CHOOSE i \in 1..Len(s) : s[i] = sep /\ \A j \in 1..(i - 1) : s[j] # sep
         IN  <<SubSeq(s, 1, k - 1)>> \o Split(Drop(s, k), sep)

\* sep.join(parts)
RECURSIVE Join(_, _)
Join(parts, sep) ==
    IF parts = <<>> THEN <<>>
    ELSE IF Len(parts) = 1 THEN parts[1]
    ELSE parts[1] \o sep \o Join(Tail(parts), sep)

\* the decimal digits of n >= 0, str(n)
RECURSIVE ToDigits(_)
ToDigits(n) == IF n < 10 THEN <<Digits[n + 1]>> ELSE ToDigits(n \div 10) \o <<Digits[(n % 10) + 1]>>

\* the value of a non-empty sequence of decimal digits
RECURSIVE DigitsVal(_)
DigitsVal(s) == IF s = <<>> THEN 0 ELSE 10 * DigitsVal(SubSeq(s, 1, Len(s) - 1)) + DigitVal(s[Len(s)])

AllDigits(s) == s # <<>> /\ \A i \in 1..Len(s) : IsDigit(s[i])

\* int(s): optional sign, then decimal digits; anything else is a ValueError
int(s) ==
    LET signed == s # <<>> /\ s[1] \in {"-", "+"}
        body == IF signed THEN Tail(s) ELSE s
    IN  IF ~AllDigits(body) THEN [raised |-> TRUE, exc |-> "ValueError"]
        ELSE [raised |-> FALSE,
              value |-> IF signed /\ s[1] = "-" THEN 0 - DigitsVal(body) ELSE DigitsVal(body)]

\* format(n, "_"): decimal digits grouped by three with underscores
RECURSIVE GroupDigits(_)
GroupDigits(d) ==
    IF Len(d) <= 3 THEN d
    ELSE GroupDigits(SubSeq(d, 1, Len(d) - 3)) \o <<"_">> \o SubSeq(d, Len(d) - 2, Len(d))

FormatUnderscore(n) == IF n < 0 THEN <<"-">> \o GroupDigits(ToDigits(0 - n)) ELSE GroupDigits(ToDigits(n))

\* format(n, "0w") for n >= 0: zero-padded on the left to at least w characters
RECURSIVE ZeroPad(_, _)
ZeroPad(d, w) == IF Len(d) >= w THEN d ELSE ZeroPad(<<"0">> \o d, w)

\* int(math.log10(n)) for n >= 1
RECURSIVE IntLog10(_)
IntLog10(n) == IF n < 10 THEN 0 ELSE 1 + IntLog10(n \div 10)

UPLOAD == <<"u", "p", "l", "o", "a", "d">>
DOWNLOAD == <<"d", "o", "w", "n", "l", "o", "a", "d">>
DOT_JSON == <<".", "j", "s", "o", "n">>
DASH_RAM == <<"-", "r", "a", "m">>
KiB == <<"K", "i", "B">>
MiB == <<"M", "i", "B">>
GiB == <<"G", "i", "B">>
BYTES == <<"b", "y", "t", "e", "s">>
BYTE == <<"b", "y", "t", "e">>

VERSION == 2
DEFAULT_MAX_REPEAT_COUNT == 10
DEFAULT_MAX_REPEAT_SECS == 600

(***************************************************************************)
(* size_from_str: re.match(r"(\d+)(KiB|MiB|GiB|bytes|byte)$", size_str)    *)
(***************************************************************************)
\* the number of leading digits of s
RECURSIVE DigitPrefixLen(_)
DigitPrefixLen(s) == IF s = <<>> \/ ~IsDigit(s[1]) THEN 0 ELSE 1 + DigitPrefixLen(Tail(s))

\* `$` matches at the end of the string and before a final newline
AtDollar(rest) == rest = <<>> \/ rest = <<"\n">>

\* size_from_str with the unit alternatives left out of the pattern: (\d+).*
size_from_str_AnyUnit(size_str) ==
    IF DigitPrefixLen(size_str) = 0 THEN [raised |-> TRUE, exc |-> "Exception", msg |-> size_str]
    ELSE [raised |-> FALSE, value |-> DigitsVal(SubSeq(size_str, 1, DigitPrefixLen(size_str)))]

size_from_str(size_str) ==
    LET k == DigitPrefixLen(size_str)
        rest == Drop(size_str, k)
        units == {u \in {KiB, MiB, GiB, BYTES, BYTE} : StartsWith(rest, u) /\ AtDollar(Drop(rest, Len(u)))}
    IN  IF k = 0 \/ units = {} THEN [raised |-> TRUE, exc |-> "Exception", msg |-> size_str]
        ELSE LET unit == CHOOSE u \in units : TRUE
                 size == DigitsVal(SubSeq(size_str, 1, k))
             IN  [raised |-> FALSE,
                  value |-> IF unit = KiB THEN size * 1024
                            ELSE IF unit = MiB THEN size * 1024 * 1024
                            ELSE IF unit = GiB THEN size * 1024 * 1024 * 1024
                            ELSE size]

(***************************************************************************)
(* parse_workload_name                                                     *)
(***************************************************************************)
parse_workload_name(name0) ==
    LET name1 == Remove(name0, DOT_JSON)
        ram == EndsWith(name1, DASH_RAM)
        files_on_disk == ~ram
        name == IF ram THEN SubSeq(name1, 1, Len(name1) - 4) ELSE name1
        parts == Split(name, "-")
    IN  IF Len(parts) < 3 THEN [raised |-> TRUE, exc |-> "Exception", at |-> "name"]
        ELSE LET action == parts[1]
                 file_size_str == parts[2]
                 count_part == Join(SubSeq(parts, 3, Len(parts)), <<"-">>)
             IN  IF action \notin {UPLOAD, DOWNLOAD} THEN [raised |-> TRUE, exc |-> "Exception", at |-> "action"]
                 ELSE IF ~EndsWith(count_part, <<"x">>) THEN [raised |-> TRUE, exc |-> "Exception", at |-> "count"]
                 ELSE LET n == int(Remove(SubSeq(count_part, 1, Len(count_part) - 1), <<"_">>))
                      IN  IF n.raised THEN [raised |-> TRUE, exc |-> "ValueError", at |-> "int"]
                          ELSE [raised |-> FALSE, action |-> action, file_size_str |-> file_size_str,
                                num_files |-> n.value, files_on_disk |-> files_on_disk]

(***************************************************************************)
(* generate_tasks_from_workload_name                                       *)
(***************************************************************************)
\* TasksOf with the index not padded
TasksOfUnpadded(action, file_size_str, file_size, num_files) ==
    [i \in 1..num_files |->
        [action |-> action,
         key |-> action \o <<"/">> \o file_size_str \o <<"-">> \o FormatUnderscore(num_files) \o <<"x", "/">>
                 \o ToDigits(i),
         size |-> file_size]]

\* TasksOf with the width one less for the powers of ten: ceil(log10(num_files)), at least 1
TasksOfCeilWidth(action, file_size_str, file_size, num_files) ==
    [i \in 1..num_files |->
        [action |-> action,
         key |-> action \o <<"/">> \o file_size_str \o <<"-">> \o FormatUnderscore(num_files) \o <<"x", "/">>
                 \o ZeroPad(ToDigits(i), IF num_files > 1 THEN IntLog10(num_files - 1) + 1 ELSE 1),
         size |-> file_size]]

\* the tasks of one (action, size token, count) group, as the loop builds them
TasksOf(action, file_size_str, file_size, num_files) ==
    LET dirname == file_size_str \o <<"-">> \o FormatUnderscore(num_files) \o <<"x">>
        int_width == IF num_files > 1 THEN IntLog10(num_files) + 1 ELSE 1
    IN  [i \in 1..num_files |->
            [action |-> action,
             key |-> action \o <<"/">> \o dirname \o <<"/">> \o ZeroPad(ToDigits(i), int_width),
             size |-> file_size]]

\* lines 127-146, given the results of parse_workload_name and size_from_str
GenerateTasks(p, sz) ==
    IF sz.raised THEN [raised |-> TRUE, exc |-> "Exception", at |-> "size"]
    ELSE [raised |-> FALSE,
          tasks |-> TasksOf(p.action, p.file_size_str, sz.value, p.num_files),
          files_on_disk |-> p.files_on_disk]

\* lines 127-146, given the result of parse_workload_name
GenerateFromParsed(p) == IF p.raised THEN p ELSE GenerateTasks(p, size_from_str(p.file_size_str))

generate_tasks_from_workload_name(name) == GenerateFromParsed(parse_workload_name(name))

(***************************************************************************)
(* parse_payload                                                           *)
(***************************************************************************)
\* str(n) of an int
str_int(n) == IF n < 0 THEN <<"-">> \o ToDigits(0 - n) ELSE ToDigits(n)

\* the dict built at lines 192-199 and 215-222
NewWorkload(files_on_disk, all_tasks) ==
    [version |-> VERSION,
     filesOnDisk |-> files_on_disk,
     checksum |-> "None",
     maxRepeatCount |-> DEFAULT_MAX_REPEAT_COUNT,
     maxRepeatSecs |-> DEFAULT_MAX_REPEAT_SECS,
     tasks |-> all_tasks]

\* lines 185-190, g the result of generate_tasks_from_workload_name
CompactItem(item, acc, g) ==
    IF g.raised THEN g
    ELSE [raised |-> FALSE,
          all_tasks |-> acc.all_tasks \o g.tasks,
          files_on_disk |-> IF "filesOnDisk" \in DOMAIN item THEN item.filesOnDisk ELSE TRUE]

\* one iteration of `for item in data`, from the accumulator acc
ArrayItem(item, acc) ==
    IF "tasks" \in DOMAIN item
    THEN [raised |-> FALSE,
          all_tasks |-> acc.all_tasks \o item.tasks,
          files_on_disk |-> IF "filesOnDisk" \in DOMAIN item
                            THEN acc.files_on_disk /\ item.filesOnDisk
                            ELSE acc.files_on_disk]
    ELSE IF {"action", "fileSize", "numFiles"} \ DOMAIN item # {}
    THEN [raised |-> TRUE, exc |-> "KeyError", at |-> "item"]
    ELSE CompactItem(item, acc, generate_tasks_from_workload_name(
             item.action \o <<"-">> \o item.fileSize \o <<"-">> \o str_int(item.numFiles) \o <<"x">>))

\* the loop `for item in data` of the JSON-array form; it ends at the first exception
RECURSIVE ArrayLoop(_, _)
ArrayLoop(items, acc) ==
    IF items = <<>> \/ acc.raised THEN acc
    ELSE ArrayLoop(Tail(items), ArrayItem(Head(items), acc))

\* NameItemWith with the flag assigned instead of and-ed
NameItemOverwritesFlag(g, acc) ==
    IF g.raised THEN g
    ELSE [raised |-> FALSE,
          all_tasks |-> acc.all_tasks \o g.tasks,
          files_on_disk |-> g.files_on_disk]

\* lines 212-213, g the result of generate_tasks_from_workload_name
NameItemWith(g, acc) ==
    IF g.raised THEN g
    ELSE [raised |-> FALSE,
          all_tasks |-> acc.all_tasks \o g.tasks,
          files_on_disk |-> acc.files_on_disk /\ g.files_on_disk]

\* one iteration of `for name in payload_args`
NameItem(name, acc) == NameItemWith(generate_tasks_from_workload_name(name), acc)

\* the loop `for name in payload_args` of the name-token form; it ends at the first exception
RECURSIVE NameLoop(_, _)
NameLoop(names, acc) ==
    IF names = <<>> \/ acc.raised THEN acc
    ELSE NameLoop(Tail(names), NameItem(Head(names), acc))

EmptyAcc == [raised |-> FALSE, all_tasks |-> <<>>, files_on_disk |-> TRUE]

\* lines 224-227: both log lines and the return index the workload
ReturnWorkload(workload) ==
    IF {"tasks", "filesOnDisk"} \ DOMAIN workload # {}
    THEN [raised |-> TRUE, exc |-> "KeyError", at |-> "return"]
    ELSE [raised |-> FALSE, workload |-> workload, files_on_disk |-> workload.filesOnDisk]

\* lines 192-199 and 215-222, r the result of the loop
BuildWorkload(r) == IF r.raised THEN r ELSE ReturnWorkload(NewWorkload(r.files_on_disk, r.all_tasks))

\* file is what the file system holds at the path payload_args[0]
parse_payload(payload_args, file) ==
    IF Len(payload_args) = 1 /\ EndsWith(payload_args[1], DOT_JSON)
    THEN IF ~file.exists THEN [raised |-> TRUE, exc |-> "Exception", at |-> "file"]
         ELSE IF "array" \in DOMAIN file.data
         THEN BuildWorkload(ArrayLoop(file.data.array, EmptyAcc))
         ELSE ReturnWorkload(file.data)
    ELSE BuildWorkload(NameLoop(payload_args, EmptyAcc))

(***************************************************************************)
(* parse_metrics.  A line of the runner's output is the record of its      *)
(* regex matches: a field run, throughput, duration or rss is present when *)
(* that pattern matches the line and holds the captured groups, in order.  *)
(* A metrics field whose value is None is left out of the metrics record.  *)
(* A float is held as an integer number of hundredths.                     *)
(***************************************************************************)
CountOf(s, c) == Cardinality({i \in 1..Len(s) : s[i] = c})

\* float(tok) of a token matched by [\d.]+
float(tok) ==
    IF CountOf(tok, ".") > 1 \/ CountOf(tok, ".") = Len(tok)
    THEN [raised |-> TRUE, exc |-> "ValueError"]
    ELSE LET parts == Split(tok, ".")
             whole == IF parts[1] = <<>> THEN 0 ELSE DigitsVal(parts[1])
             frac == IF Len(parts) = 1 THEN <<>> ELSE parts[2]
             frac2 == SubSeq(frac \o <<"0", "0">>, 1, 2)
         IN  [raised |-> FALSE, value |-> 100 * whole + DigitsVal(frac2)]

\* metrics[k] = v
Put(m, k, v) == [x \in DOMAIN m \cup {k} |-> IF x = k THEN v ELSE m[x]]

AnyRaises(groups) == \E i \in 1..Len(groups) : float(groups[i]).raised

\* PutAggregate with the median assigned and the other three left as they were
PutAggregateMedianOnly(m, prefix, groups) ==
    Put(m, IF prefix = "throughput" THEN "throughput_median" ELSE "duration_median", float(groups[1]).value)

\* the four aggregate assignments of one matching line
PutAggregate(m, prefix, groups) ==
    LET names == IF prefix = "throughput"
                 THEN <<"throughput_median", "throughput_mean", "throughput_min", "throughput_max">>
                 ELSE <<"duration_median", "duration_mean", "duration_min", "duration_max">>
    IN  Put(Put(Put(Put(m, names[1], float(groups[1]).value),
                    names[2], float(groups[2]).value),
                names[3], float(groups[3]).value),
            names[4], float(groups[4]).value)

\* the body of `for line in output.split('\n')` for one line
MetricsLine(line, m) ==
    IF ("run" \in DOMAIN line /\ AnyRaises(Tail(line.run)))
       \/ ("throughput" \in DOMAIN line /\ AnyRaises(line.throughput))
       \/ ("duration" \in DOMAIN line /\ AnyRaises(line.duration))
       \/ ("rss" \in DOMAIN line /\ AnyRaises(line.rss))
    THEN [raised |-> TRUE, exc |-> "ValueError", at |-> "metrics"]
    ELSE LET m1 == IF "run" \in DOMAIN line
                   THEN Put(m, "runs", Append(m.runs, [run |-> DigitsVal(line.run[1]),
                                                       secs |-> float(line.run[2]).value,
                                                       gbps |-> float(line.run[3]).value]))
                   ELSE m
             m2 == IF "throughput" \in DOMAIN line THEN PutAggregate(m1, "throughput", line.throughput) ELSE m1
             m3 == IF "duration" \in DOMAIN line THEN PutAggregate(m2, "duration", line.duration) ELSE m2
         IN  IF "rss" \in DOMAIN line THEN Put(m3, "peak_rss", float(line.rss[1]).value) ELSE m3

\* MetricsLoop taking the lines from the last to the first
RECURSIVE MetricsLoopReversed(_, _)
MetricsLoopReversed(lines, m) ==
    IF lines = <<>> \/ m.raised THEN m
    ELSE MetricsLoopReversed(SubSeq(lines, 1, Len(lines) - 1), MetricsLine(lines[Len(lines)], m))

\* the loop over the lines; it ends at the first exception
RECURSIVE MetricsLoop(_, _)
MetricsLoop(lines, m) ==
    IF lines = <<>> \/ m.raised THEN m
    ELSE MetricsLoop(Tail(lines), MetricsLine(Head(lines), m))

parse_metrics(output) == MetricsLoop(output, [raised |-> FALSE, runs |-> <<>>])

(***************************************************************************)
(* format_comparison_table.  The table is the sequence of its rows; a row  *)
(* is the record of its cells, without the padding and the box drawing.    *)
(***************************************************************************)
\* format(v, ".2f")
Format2f(v) == ToDigits(v \div 100) \o <<".">> \o ZeroPad(ToDigits(v % 100), 2)

N_A == <<"N", "/", "A">>

Blank == <<>>

NotAvailableRow == [label |-> "  (metrics not available)", c1 |-> Blank, c2 |-> Blank]

\* SectionRows rendering a section only if both aggregates are there on both sides
SectionRowsCoupled(prefix, metrics1, metrics2) ==
    IF \A k \in {"throughput_median", "duration_median"} : k \in DOMAIN metrics1 /\ k \in DOMAIN metrics2
    THEN [stat \in 1..4 |->
             [label |-> <<"  Median", "  Mean", "  Min", "  Max">>[stat],
              c1 |-> Format2f(metrics1[IF prefix = "throughput" THEN "throughput_median" ELSE "duration_median"]),
              c2 |-> Format2f(metrics2[IF prefix = "throughput" THEN "throughput_median" ELSE "duration_median"])]]
    ELSE <<NotAvailableRow>>

SectionRows(prefix, metrics1, metrics2) ==
    LET key(stat) == IF prefix = "throughput"
                     THEN CASE stat = 1 -> "throughput_median" [] stat = 2 -> "throughput_mean"
                            [] stat = 3 -> "throughput_min" [] OTHER -> "throughput_max"
                     ELSE CASE stat = 1 -> "duration_median" [] stat = 2 -> "duration_mean"
                            [] stat = 3 -> "duration_min" [] OTHER -> "duration_max"
        labels == <<"  Median", "  Mean", "  Min", "  Max">>
    IN  IF key(1) \in DOMAIN metrics1 /\ key(1) \in DOMAIN metrics2
        THEN IF \E stat \in 2..4 : key(stat) \notin DOMAIN metrics1 \/ key(stat) \notin DOMAIN metrics2
             THEN <<[raised |-> TRUE, exc |-> "TypeError"]>>
             ELSE [stat \in 1..4 |-> [label |-> labels[stat],
                                      c1 |-> Format2f(metrics1[key(stat)]),
                                      c2 |-> Format2f(metrics2[key(stat)])]]
        ELSE <<NotAvailableRow>>

format_comparison_table(client1_name, client1_branch, metrics1, client2_name, client2_branch, metrics2) ==
    LET val1 == IF "peak_rss" \in DOMAIN metrics1 THEN Format2f(metrics1.peak_rss) ELSE N_A
        val2 == IF "peak_rss" \in DOMAIN metrics2 THEN Format2f(metrics2.peak_rss) ELSE N_A
        rows == <<[label |-> "Metric", c1 |-> <<client1_name, ":", client1_branch>>,
                                       c2 |-> <<client2_name, ":", client2_branch>>],
                  [label |-> "Throughput (Gb/s)", c1 |-> Blank, c2 |-> Blank]>>
                \o SectionRows("throughput", metrics1, metrics2)
                \o <<[label |-> "Duration (Secs)", c1 |-> Blank, c2 |-> Blank]>>
                \o SectionRows("duration", metrics1, metrics2)
                \o <<[label |-> "Peak RSS (MiB)", c1 |-> val1, c2 |-> val2]>>
    IN  IF \E i \in 1..Len(rows) : "raised" \in DOMAIN rows[i]
        THEN [raised |-> TRUE, exc |-> "TypeError", at |-> "table"]
        ELSE [raised |-> FALSE, rows |-> rows]

(***************************************************************************)
(* get_build_type                                                          *)
(***************************************************************************)
PythonClients == {"crt-python", "boto3-crt", "boto3-classic", "cli-crt", "cli-classic"}

JavaClients == {"crt-java", "sdk-java-client-crt", "sdk-java-client-classic", "sdk-java-tm-crt", "sdk-java-tm-classic"}

get_build_type(client_name) ==
    IF client_name = "crt-c" THEN [raised |-> FALSE, value |-> "aws-c-s3"]
    ELSE IF client_name \in PythonClients THEN [raised |-> FALSE, value |-> "python"]
    ELSE IF client_name \in JavaClients THEN [raised |-> FALSE, value |-> "java"]
    ELSE IF client_name = "sdk-rust-tm" THEN [raised |-> FALSE, value |-> "rust"]
    ELSE [raised |-> TRUE, exc |-> "Exception", at |-> "client"]

\* the executable run_benchmark selects for the client
RunnerOf(client_name) ==
    IF client_name = "crt-c" THEN [raised |-> FALSE, value |-> "install/bin/s3-c"]
    ELSE IF client_name \in PythonClients THEN [raised |-> FALSE, value |-> "python3 runners/s3-python/main.py"]
    ELSE IF client_name \in JavaClients THEN [raised |-> FALSE, value |-> "java -jar s3-benchrunner-java-1.0-SNAPSHOT.jar"]
    ELSE IF client_name = "sdk-rust-tm" THEN [raised |-> FALSE, value |-> "s3-benchrunner-rust"]
    ELSE [raised |-> TRUE, exc |-> "Exception", at |-> "client"]

(***************************************************************************)
(* The state of one run of main().                                         *)
(***************************************************************************)
VARIABLES
    args,          \* the parsed command line
    payload_file,  \* what the file system holds at the path args.payload[0]
    pc,            \* <<step, client>>: where main() is
    workload,      \* local `workload` of main()
    workload_path, \* local `workload_path` of main()
    artifact,      \* the temporary workload file
    running,       \* the external processes started and not yet exited
    trace,         \* the steps taken so far, in order
    cwd,           \* the working directory of the process
    output,        \* output1, output2
    metrics,       \* metrics1, metrics2
    table,         \* the rows printed by print(table)
    exit_status,   \* whether the process has exited, and its exit code
    error,         \* the exception caught by `except Exception as e`
    call,          \* the arguments of a function called on its own
    ret            \* what the functions called on their own returned

vars == <<call, ret, args, payload_file, pc, workload, workload_path, artifact, running, trace, cwd,
          output, metrics, table, exit_status, error>>

Clients == {1, 2}

ClientName(c) == IF c = 1 THEN args.client1 ELSE args.client2

ClientBranch(c) == IF c = 1 THEN args.client1_branch ELSE args.client2_branch

ClientRepo(c) == IF c = 1 THEN args.client1_repo ELSE args.client2_repo

NoWorkload == [unset |-> TRUE]

NoPath == <<>>

TMP_PATH == <<"t", "m", "p", ".", "j", "s", "o", "n">>

NoError == [raised |-> FALSE]

\* no function is called on its own in a run of main()
NoCall == [of |-> "main"]

ExitCodes == 0..MaxExit

\* one entry of the trace
\* path is the workload path given to the step, file what that path holds then
Event(step, c, ev, rc, dir, path) ==
    [step |-> step, client |-> c, ev |-> ev, rc |-> rc, cwd |-> dir, path |-> path,
     file |-> IF path # NoPath /\ artifact.exists /\ artifact.path = path THEN artifact.content ELSE NoWorkload]

\* the step did not spawn a process
Did(step) == Append(trace, Event(step, 0, "done", 0, cwd, NoPath))

\* Raise with the error printed and the process exiting as on success
RaiseExitsZero(e) ==
    /\ pc' = <<"done", 0>>
    /\ exit_status' = [exited |-> TRUE, code |-> 0]
    /\ error' = e

\* `except Exception as e: print(...); sys.exit(1)`
Raise(e) ==
    /\ pc' = <<"done", 0>>
    /\ exit_status' = [exited |-> TRUE, code |-> 1]
    /\ error' = e

\* subprocess.run(cmd, cwd=dir) up to the start of the child
Spawn(step, c, dir, path, next) ==
    /\ running' = running \cup {[step |-> step, client |-> c]}
    /\ trace' = Append(trace, Event(step, c, "start", 0, dir, path))
    /\ pc' = <<next, c>>

\* the child exits with rc and subprocess.run returns
Exited(step, c, rc) ==
    /\ running' = running \ {[step |-> step, client |-> c]}
    /\ trace' = Append(trace, Event(step, c, "exit", rc, cwd, NoPath))

(***************************************************************************)
(* main(), lines 512-558.                                                  *)
(***************************************************************************)
\* line 514
ParsePayload ==
    /\ pc = <<"parse", 0>>
    /\ \E r \in {parse_payload(args.payload, payload_file)} :
           IF r.raised
           THEN Raise(r) /\ UNCHANGED <<workload, trace>>
           ELSE /\ workload' = r.workload
                /\ trace' = Did("parse")
                /\ pc' = <<"write", 0>>
                /\ UNCHANGED <<exit_status, error>>
    /\ UNCHANGED <<call, ret, args, payload_file, workload_path, artifact, running, cwd, output, metrics, table>>

\* WriteWorkload followed by client 1 with prep_files left out
WriteWorkloadSkipsPrep ==
    /\ pc = <<"write", 0>>
    /\ workload_path' = TMP_PATH
    /\ artifact' = [exists |-> TRUE, path |-> TMP_PATH, content |-> workload,
                    writes |-> artifact.writes + 1, unlinks |-> artifact.unlinks]
    /\ trace' = Did("write")
    /\ pc' = <<"fetch", 1>>
    /\ UNCHANGED <<call, ret, args, payload_file, workload, running, cwd, output, metrics, table, exit_status, error>>

\* lines 517-519
WriteWorkload ==
    /\ pc = <<"write", 0>>
    /\ workload_path' = TMP_PATH
    /\ artifact' = [exists |-> TRUE, path |-> TMP_PATH, content |-> workload,
                    writes |-> artifact.writes + 1, unlinks |-> artifact.unlinks]
    /\ trace' = Did("write")
    /\ pc' = <<"prep", 0>>
    /\ UNCHANGED <<call, ret, args, payload_file, workload, running, cwd, output, metrics, table, exit_status, error>>

\* prep_files, lines 230-245
PrepFilesSpawn ==
    /\ pc = <<"prep", 0>>
    /\ Spawn("prep", 0, cwd, workload_path, "prep_wait")
    /\ UNCHANGED <<call, ret, args, payload_file, workload, workload_path, artifact, cwd, output, metrics, table,
                   exit_status, error>>

\* prep_files, lines 245-247
PrepFilesExit ==
    /\ pc = <<"prep_wait", 0>>
    /\ \E rc \in ExitCodes :
          /\ Exited("prep", 0, rc)
          /\ IF rc # 0
             THEN Raise([raised |-> TRUE, exc |-> "Exception", at |-> "prep"])
             ELSE pc' = <<"fetch", 1>> /\ UNCHANGED <<exit_status, error>>
    /\ UNCHANGED <<call, ret, args, payload_file, workload, workload_path, artifact, cwd, output, metrics, table>>

\* checkout_branch, lines 254-258
GitFetchSpawn(c) ==
    /\ pc = <<"fetch", c>>
    /\ Spawn("fetch", c, ClientRepo(c), NoPath, "fetch_wait")
    /\ UNCHANGED <<call, ret, args, payload_file, workload, workload_path, artifact, cwd, output, metrics, table,
                   exit_status, error>>

\* checkout_branch, lines 258-260
GitFetchExit(c) ==
    /\ pc = <<"fetch_wait", c>>
    /\ \E rc \in ExitCodes :
          /\ Exited("fetch", c, rc)
          /\ IF rc # 0
             THEN Raise([raised |-> TRUE, exc |-> "Exception", at |-> "fetch"])
             ELSE pc' = <<"checkout", c>> /\ UNCHANGED <<exit_status, error>>
    /\ UNCHANGED <<call, ret, args, payload_file, workload, workload_path, artifact, cwd, output, metrics, table>>

\* checkout_branch, lines 263-264
GitCheckoutSpawn(c) ==
    /\ pc = <<"checkout", c>>
    /\ Spawn("checkout", c, ClientRepo(c), NoPath, "checkout_wait")
    /\ UNCHANGED <<call, ret, args, payload_file, workload, workload_path, artifact, cwd, output, metrics, table,
                   exit_status, error>>

\* checkout_branch, lines 264-266
GitCheckoutExit(c) ==
    /\ pc = <<"checkout_wait", c>>
    /\ \E rc \in ExitCodes :
          /\ Exited("checkout", c, rc)
          /\ IF rc # 0
             THEN Raise([raised |-> TRUE, exc |-> "Exception", at |-> "checkout"])
             ELSE pc' = <<"rebuild", c>> /\ UNCHANGED <<exit_status, error>>
    /\ UNCHANGED <<call, ret, args, payload_file, workload, workload_path, artifact, cwd, output, metrics, table>>

\* rebuild_client, lines 287-291
ClearSpawn(c) ==
    /\ pc = <<"rebuild", c>>
    /\ \E build_type \in {get_build_type(ClientName(c))} :
           IF build_type.raised
           THEN Raise(build_type) /\ UNCHANGED <<running, trace>>
           ELSE Spawn("clear", c, cwd, NoPath, "clear_wait") /\ UNCHANGED <<exit_status, error>>
    /\ UNCHANGED <<call, ret, args, payload_file, workload, workload_path, artifact, cwd, output, metrics, table>>

\* ClearExit with a failed clear raising like the other steps
ClearExitAborts(c) ==
    /\ pc = <<"clear_wait", c>>
    /\ \E rc \in ExitCodes :
          /\ Exited("clear", c, rc)
          /\ IF rc # 0
             THEN Raise([raised |-> TRUE, exc |-> "Exception", at |-> "clear"])
             ELSE pc' = <<"build", c>> /\ UNCHANGED <<exit_status, error>>
    /\ UNCHANGED <<call, ret, args, payload_file, workload, workload_path, artifact, cwd, output, metrics, table>>

\* rebuild_client, lines 291-293
ClearExit(c) ==
    /\ pc = <<"clear_wait", c>>
    /\ \E rc \in ExitCodes : Exited("clear", c, rc)
    /\ pc' = <<"build", c>>
    /\ UNCHANGED <<call, ret, args, payload_file, workload, workload_path, artifact, cwd, output, metrics, table,
                   exit_status, error>>

\* rebuild_client, lines 296-297
BuildSpawn(c) ==
    /\ pc = <<"build", c>>
    /\ Spawn("build", c, cwd, NoPath, "build_wait")
    /\ UNCHANGED <<call, ret, args, payload_file, workload, workload_path, artifact, cwd, output, metrics, table,
                   exit_status, error>>

\* BuildExit with the check of the return code left out
BuildExitIgnoresFailure(c) ==
    /\ pc = <<"build_wait", c>>
    /\ \E rc \in ExitCodes : Exited("build", c, rc)
    /\ pc' = <<"run", c>>
    /\ UNCHANGED <<call, ret, args, payload_file, workload, workload_path, artifact, cwd, output, metrics, table,
                   exit_status, error>>

\* rebuild_client, lines 297-299
BuildExit(c) ==
    /\ pc = <<"build_wait", c>>
    /\ \E rc \in ExitCodes :
          /\ Exited("build", c, rc)
          /\ IF rc # 0
             THEN Raise([raised |-> TRUE, exc |-> "Exception", at |-> "build"])
             ELSE pc' = <<"run", c>> /\ UNCHANGED <<exit_status, error>>
    /\ UNCHANGED <<call, ret, args, payload_file, workload, workload_path, artifact, cwd, output, metrics, table>>

(***************************************************************************)
(* The runner's standard output, as the lines parse_metrics looks at.      *)
(***************************************************************************)
N_1 == <<"1">>
N_0_50 == <<"0", ".", "5", "0">>
N_10_2 == <<"1", "0", ".", "2">>
N_9_ == <<"9", ".">>
N_1_2_3 == <<"1", ".", "2", ".", "3">>
N_DOT == <<".">>

RunLine == [text |-> "Run:1 Secs:0.50 Gb/s:10.2", run |-> <<N_1, N_0_50, N_10_2>>]
ThroughputLine == [text |-> "Overall Throughput (Gb/s) ...", throughput |-> <<N_10_2, N_10_2, N_9_, N_10_2>>]
DurationLine == [text |-> "Overall Duration (Secs) ...", duration |-> <<N_0_50, N_0_50, N_0_50, N_0_50>>]
RssLine == [text |-> "Peak RSS:10.2 MiB", rss |-> <<N_10_2>>]
OtherLine == [text |-> "done"]
BadRunLine == [text |-> "Run:1 Secs:1.2.3 Gb/s:10.2", run |-> <<N_1, N_1_2_3, N_10_2>>]
BadRssLine == [text |-> "Peak RSS:. MiB", rss |-> <<N_DOT>>]

Outputs ==
    { <<RunLine, ThroughputLine, DurationLine, RssLine>>,
      <<OtherLine>>,
      <<ThroughputLine, OtherLine>>,
      <<RunLine, BadRunLine>>,
      <<BadRssLine>> }

\* RunBenchmarkSpawn with the runner given the payload argument instead of workload_path
RunBenchmarkSpawnPayloadPath(c) ==
    /\ pc = <<"run", c>>
    /\ cwd' = "FILES_DIR"
    /\ \E cmd \in {RunnerOf(ClientName(c))} :
           IF cmd.raised
           THEN Raise(cmd) /\ UNCHANGED <<running, trace>>
           ELSE Spawn("execute", c, cwd', args.payload[1], "run_wait") /\ UNCHANGED <<exit_status, error>>
    /\ UNCHANGED <<call, ret, args, payload_file, workload, workload_path, artifact, output, metrics, table>>

\* run_benchmark, lines 312-362
RunBenchmarkSpawn(c) ==
    /\ pc = <<"run", c>>
    /\ cwd' = "FILES_DIR"
    /\ \E cmd \in {RunnerOf(ClientName(c))} :
           IF cmd.raised
           THEN Raise(cmd) /\ UNCHANGED <<running, trace>>
           ELSE Spawn("execute", c, cwd', workload_path, "run_wait") /\ UNCHANGED <<exit_status, error>>
    /\ UNCHANGED <<call, ret, args, payload_file, workload, workload_path, artifact, output, metrics, table>>

\* run_benchmark, lines 362-376
RunBenchmarkExit(c) ==
    /\ pc = <<"run_wait", c>>
    /\ \E rc \in ExitCodes :
          /\ Exited("execute", c, rc)
          /\ IF rc # 0
             THEN /\ Raise([raised |-> TRUE, exc |-> "Exception", at |-> "execute"])
                  /\ UNCHANGED output
             ELSE /\ \E stdout \in Outputs : output' = Append(output, stdout)
                  /\ pc' = <<"metrics", c>>
                  /\ UNCHANGED <<exit_status, error>>
    /\ UNCHANGED <<call, ret, args, payload_file, workload, workload_path, artifact, cwd, metrics, table>>

\* lines 534 and 544
ParseMetrics(c) ==
    /\ pc = <<"metrics", c>>
    /\ \E r \in {parse_metrics(output[c])} :
           IF r.raised
           THEN Raise(r) /\ UNCHANGED metrics
           ELSE /\ metrics' = Append(metrics, r)
                /\ pc' = IF c = 1 THEN <<"fetch", 2>> ELSE <<"render", 0>>
                /\ UNCHANGED <<exit_status, error>>
    /\ UNCHANGED <<call, ret, args, payload_file, workload, workload_path, artifact, running, trace, cwd, output, table>>

\* lines 547-551
PrintTable ==
    /\ pc = <<"render", 0>>
    /\ \E t \in {format_comparison_table(args.client1, args.client1_branch, metrics[1],
                                          args.client2, args.client2_branch, metrics[2])} :
           IF t.raised
           THEN Raise(t) /\ UNCHANGED <<table, trace>>
           ELSE /\ table' = t.rows
                /\ trace' = Did("render")
                /\ pc' = <<"unlink", 0>>
                /\ UNCHANGED <<exit_status, error>>
    /\ UNCHANGED <<call, ret, args, payload_file, workload, workload_path, artifact, running, cwd, output, metrics>>

\* Unlink with os.unlink left out
UnlinkKeepsFile ==
    /\ pc = <<"unlink", 0>>
    /\ trace' = Did("unlink")
    /\ pc' = <<"done", 0>>
    /\ exit_status' = [exited |-> TRUE, code |-> 0]
    /\ UNCHANGED <<call, ret, args, payload_file, workload, workload_path, artifact, running, cwd, output, metrics,
                   table, error>>

\* line 554, and the return of main()
Unlink ==
    /\ pc = <<"unlink", 0>>
    /\ IF ~artifact.exists
       THEN Raise([raised |-> TRUE, exc |-> "FileNotFoundError", at |-> "unlink"]) /\ UNCHANGED <<artifact, trace>>
       ELSE /\ artifact' = [artifact EXCEPT !.exists = FALSE, !.unlinks = artifact.unlinks + 1]
            /\ trace' = Did("unlink")
            /\ pc' = <<"done", 0>>
            /\ exit_status' = [exited |-> TRUE, code |-> 0]
            /\ UNCHANGED error
    /\ UNCHANGED <<call, ret, args, payload_file, workload, workload_path, running, cwd, output, metrics, table>>

(***************************************************************************)
(* The inputs: command lines and payload files.                            *)
(***************************************************************************)
SeqsUpTo(S, n) == UNION {[1..k -> S] : k \in 0..n}

S_1MiB == <<"1">> \o MiB
S_2KiB == <<"2">> \o KiB
S_3bytes == <<"3">> \o BYTES
S_1MB == <<"1", "M", "B">>
COPY == <<"c", "o", "p", "y">>

\* name tokens of the grammar {action}-{sizeToken}-{count}x[-ram]; n is the count
ValidDescs ==
    { [action |-> UPLOAD, size |-> S_1MiB, count |-> <<"2">>, n |-> 2, ram |-> FALSE],
      [action |-> DOWNLOAD, size |-> S_2KiB, count |-> <<"1">>, n |-> 1, ram |-> TRUE],
      [action |-> UPLOAD, size |-> S_3bytes, count |-> <<"1", "_", "0">>, n |-> 10, ram |-> FALSE],
      [action |-> DOWNLOAD, size |-> S_1MiB, count |-> <<"0", "3">>, n |-> 3, ram |-> FALSE],
      [action |-> UPLOAD, size |-> S_2KiB, count |-> <<"2">>, n |-> 2, ram |-> TRUE] }

Render(d) ==
    d.action \o <<"-">> \o d.size \o <<"-">> \o d.count \o <<"x">> \o (IF d.ram THEN DASH_RAM ELSE <<>>)

ValidTokens == {Render(d) : d \in ValidDescs}

T_BadSize == UPLOAD \o <<"-">> \o S_1MB \o <<"-", "2", "x">>
T_BadAction == COPY \o <<"-">> \o S_1MiB \o <<"-", "2", "x">>
T_TwoParts == UPLOAD \o <<"-">> \o S_1MiB \o <<"2", "x">>
T_NoX == UPLOAD \o <<"-">> \o S_1MiB \o <<"-", "2">>
T_NoCount == DOWNLOAD \o <<"-">> \o S_1MiB \o <<"-", "x", "-", "r", "a", "m">>
T_Json == UPLOAD \o <<"-">> \o S_1MiB \o <<"-", "2", "x">> \o DOT_JSON
T_NoDigits == UPLOAD \o <<"-">> \o MiB \o <<"-", "2", "x">>
T_LowerUnit == DOWNLOAD \o <<"-", "1", "m", "i", "b", "-", "2", "x">> \o DASH_RAM
T_CapAction == <<"U", "p", "l", "o", "a", "d", "-">> \o S_1MiB \o <<"-", "2", "x">>
T_OnePart == UPLOAD
T_NoXRam == DOWNLOAD \o <<"-">> \o S_2KiB \o <<"-", "2">> \o DASH_RAM
\* a size token that ends in a newline
T_NewlineSize == UPLOAD \o <<"-">> \o S_1MiB \o <<"\n", "-", "2", "x">>

InvalidTokens == {T_BadSize, T_BadAction, T_TwoParts, T_NoX, T_NoCount}

\* further malformed tokens, taken through main() only
MoreInvalidTokens == {T_NoDigits, T_LowerUnit, T_CapAction, T_OnePart, T_NoXRam, T_NewlineSize}

Tokens == ValidTokens \cup InvalidTokens \cup {T_Json}

JSON_PATH == <<"w">> \o DOT_JSON

NoFile == [exists |-> FALSE]

Task1 == [action |-> UPLOAD, key |-> <<"u", "/", "a">>, size |-> 5]
Task2 == [action |-> DOWNLOAD, key |-> <<"d", "/", "b">>, size |-> 7]

\* elements of a JSON array: fragments with tasks, and compact specs
FullItems ==
    { [tasks |-> <<Task1>>, filesOnDisk |-> FALSE],
      [tasks |-> <<Task2>>, filesOnDisk |-> TRUE],
      [tasks |-> <<Task1, Task2>>] }

CompactItems ==
    { [action |-> UPLOAD, fileSize |-> S_1MiB, numFiles |-> 2],
      [action |-> DOWNLOAD, fileSize |-> S_2KiB, numFiles |-> 1, filesOnDisk |-> FALSE],
      [action |-> UPLOAD, fileSize |-> S_3bytes, numFiles |-> 2, filesOnDisk |-> TRUE] }

InvalidItems ==
    { [fileSize |-> S_1MiB, numFiles |-> 2],
      [action |-> UPLOAD, numFiles |-> 2],
      [action |-> UPLOAD, fileSize |-> S_1MB, numFiles |-> 2],
      [action |-> COPY, fileSize |-> S_1MiB, numFiles |-> 2] }

Items == FullItems \cup CompactItems \cup InvalidItems

\* top-level JSON objects
Objects ==
    { [version |-> 2, comment |-> "c", filesOnDisk |-> FALSE, checksum |-> "CRC32",
       maxRepeatCount |-> 3, maxRepeatSecs |-> 20, tasks |-> <<Task1, Task2>>],
      [tasks |-> <<Task1>>, filesOnDisk |-> TRUE],
      [tasks |-> <<Task1>>],
      [filesOnDisk |-> TRUE] }

File(data) == [exists |-> TRUE, data |-> data]

\* every payload within the bounds
Payloads ==
    {[payload |-> p, file |-> NoFile] : p \in SeqsUpTo(Tokens, MaxTokens) \ {<<>>}}
    \cup {[payload |-> <<JSON_PATH>>, file |-> File([array |-> a])] : a \in SeqsUpTo(Items, MaxItems)}
    \cup {[payload |-> <<JSON_PATH>>, file |-> File(o)] : o \in Objects}
    \cup {[payload |-> <<JSON_PATH>>, file |-> NoFile]}

\* the payloads taken through the whole pipeline
Tok_A == Render([action |-> UPLOAD, size |-> S_1MiB, count |-> <<"2">>, ram |-> FALSE])
Tok_B == Render([action |-> DOWNLOAD, size |-> S_2KiB, count |-> <<"1">>, ram |-> TRUE])

PipelinePayloads ==
    {[payload |-> p, file |-> NoFile] :
        p \in {<<Tok_A>>, <<Tok_A, Tok_B>>, <<T_Json>>, <<JSON_PATH>>}
              \cup {<<t>> : t \in InvalidTokens \cup MoreInvalidTokens}
              \cup {<<Tok_A, t>> : t \in InvalidTokens \cup MoreInvalidTokens}
              \cup {<<t, Tok_B>> : t \in InvalidTokens \cup MoreInvalidTokens}}
    \cup {[payload |-> <<JSON_PATH>>, file |-> File([array |-> a])] :
        a \in {<<[tasks |-> <<Task1>>, filesOnDisk |-> FALSE], [action |-> UPLOAD, fileSize |-> S_1MiB, numFiles |-> 2]>>}
              \cup {<<i>> : i \in InvalidItems}
              \cup {<<[tasks |-> <<Task1>>], i>> : i \in InvalidItems}
              \cup {<<i, [action |-> UPLOAD, fileSize |-> S_1MiB, numFiles |-> 2]>> : i \in InvalidItems}}
    \cup {[payload |-> <<JSON_PATH>>, file |-> File(o)] :
        o \in {[tasks |-> <<Task1>>, filesOnDisk |-> TRUE], [tasks |-> <<Task1>>]}}

ClientNames == {"crt-c", "boto3-crt", "crt-java", "sdk-rust-tm", "s3-go"}

InitWith(payloads, names) ==
    /\ \E p \in payloads, n1 \in names, n2 \in names :
          /\ args = [client1 |-> n1, client1_branch |-> "main", client1_repo |-> "source/repo1",
                     client2 |-> n2, client2_branch |-> "feature", client2_repo |-> "source/repo2",
                     payload |-> p.payload]
          /\ payload_file = p.file
    /\ pc = <<"parse", 0>>
    /\ workload = NoWorkload
    /\ workload_path = NoPath
    /\ artifact = [exists |-> FALSE, path |-> NoPath, content |-> NoWorkload, writes |-> 0, unlinks |-> 0]
    /\ running = {}
    /\ trace = <<>>
    /\ cwd = "INVOCATION_DIR"
    /\ output = <<>>
    /\ metrics = <<>>
    /\ table = <<>>
    /\ exit_status = [exited |-> FALSE]
    /\ error = NoError
    /\ call = NoCall
    /\ ret = NoCall

Init == InitWith(PipelinePayloads, ClientNames)

Next ==
    \/ ParsePayload
    \/ WriteWorkload
    \/ PrepFilesSpawn
    \/ PrepFilesExit
    \/ \E c \in Clients : GitFetchSpawn(c)
    \/ \E c \in Clients : GitFetchExit(c)
    \/ \E c \in Clients : GitCheckoutSpawn(c)
    \/ \E c \in Clients : GitCheckoutExit(c)
    \/ \E c \in Clients : ClearSpawn(c)
    \/ \E c \in Clients : ClearExit(c)
    \/ \E c \in Clients : BuildSpawn(c)
    \/ \E c \in Clients : BuildExit(c)
    \/ \E c \in Clients : RunBenchmarkSpawn(c)
    \/ \E c \in Clients : RunBenchmarkExit(c)
    \/ \E c \in Clients : ParseMetrics(c)
    \/ PrintTable
    \/ Unlink

Spec == Init /\ [][Next]_vars

\* parse_payload alone, over every payload within the bounds
InitParse == InitWith(Payloads, {"crt-c"})

NextParse == ParsePayload

SpecParse == InitParse /\ [][NextParse]_vars

(***************************************************************************)
(* Properties of main().                                                   *)
(***************************************************************************)
Exits(step, c) == {i \in 1..Len(trace) : trace[i].step = step /\ trace[i].client = c /\ trace[i].ev = "exit"}

Starts(step, c) == {i \in 1..Len(trace) : trace[i].step = step /\ trace[i].client = c /\ trace[i].ev = "start"}

AnyStart == {i \in 1..Len(trace) : trace[i].ev = "start"}

FatalSteps == {"prep", "fetch", "checkout", "build", "execute"}

\* the fatal steps that returned non-zero
FatalFailures == {i \in 1..Len(trace) : trace[i].ev = "exit" /\ trace[i].step \in FatalSteps /\ trace[i].rc # 0}

Exited_ == exit_status.exited

ExitCode(n) == exit_status.exited /\ exit_status.code = n

TablePrinted == table # <<>>

\* C1: once a fatal step (prep, fetch, checkout, build, execute of either
\* client) has returned non-zero, no external step is started any more and
\* none is running; a failed build of client 2 is never followed by client
\* 2's runner.
C1_NoStepAfterFatalFailure ==
    /\ \A i \in FatalFailures :
          /\ \A j \in AnyStart : j < i
          /\ running = {}
          /\ ExitCode(1)
    /\ (\E i \in Exits("build", 2) : trace[i].rc # 0) => Starts("execute", 2) = {}

\* client 2's build failed after client 1 ran to the end
C1_Witness ==
    /\ \E i \in Exits("build", 2) : trace[i].rc # 0
    /\ Exits("execute", 1) # {}
    /\ FatalFailures # {}
    /\ Exited_

\* every fatal step of both clients returned 0
AllFatalSucceeded ==
    /\ \E i \in Exits("prep", 0) : trace[i].rc = 0
    /\ \A c \in Clients : \A step \in FatalSteps \ {"prep"} : \E i \in Exits(step, c) : trace[i].rc = 0

\* C2: the table is printed only if every fatal step of both clients
\* succeeded; the run that prints it exits with 0 and only that run does; a
\* caught error means exit code 1; no table in a run in which a step failed.
C2_TableOnlyOnSuccess ==
    /\ TablePrinted => AllFatalSucceeded /\ ~error.raised
    /\ Exited_ => (TablePrinted <=> exit_status.code = 0)
    /\ Exited_ => (error.raised <=> exit_status.code = 1)
    /\ error.raised => Exited_
    /\ FatalFailures # {} => ~TablePrinted

\* the table was printed and the process exited with 0
C2_Witness == TablePrinted /\ ExitCode(0) /\ AllFatalSucceeded

\* the steps of a complete run, in order
ClientSteps(c) ==
    <<<<"fetch", c, "start">>, <<"fetch", c, "exit">>, <<"checkout", c, "start">>, <<"checkout", c, "exit">>,
      <<"clear", c, "start">>, <<"clear", c, "exit">>, <<"build", c, "start">>, <<"build", c, "exit">>,
      <<"execute", c, "start">>, <<"execute", c, "exit">>>>

StepOrder ==
    <<<<"parse", 0, "done">>, <<"write", 0, "done">>, <<"prep", 0, "start">>, <<"prep", 0, "exit">>>>
    \o ClientSteps(1) \o ClientSteps(2)
    \o <<<<"render", 0, "done">>, <<"unlink", 0, "done">>>>

\* C3: the steps occur in the order parse, write, prep (once), client 1's
\* fetch, checkout, clear, build, execute, client 2's the same, render; a
\* step starts only after the one before it returned 0 (clear may return
\* anything); at most one external process runs at a time.
C3_StepsInOrder ==
    /\ Len(trace) <= Len(StepOrder)
    /\ \A i \in 1..Len(trace) : <<trace[i].step, trace[i].client, trace[i].ev>> = StepOrder[i]
    /\ \A i \in 1..(Len(trace) - 1) : trace[i].step # "clear" => trace[i].rc = 0
    /\ Cardinality(running) <= 1
    /\ running # {} => /\ trace[Len(trace)].ev = "start"
                       /\ running = {[step |-> trace[Len(trace)].step, client |-> trace[Len(trace)].client]}
    /\ (trace # <<>> /\ trace[Len(trace)].ev = "start") => running # {}

\* a complete run: every step of both clients happened
C3_Witness == Len(trace) = Len(StepOrder) /\ Exits("execute", 2) # {} /\ TablePrinted

UnknownClient == get_build_type(args.client1).raised \/ get_build_type(args.client2).raised

\* C4: when --client1 or --client2 is a name get_build_type does not know,
\* no external process (prep, fetch, checkout, clear, build, runner) is ever
\* spawned.
C4_UnknownClientSpawnsNothing == UnknownClient => AnyStart = {}

IsJsonPayload == Len(args.payload) = 1 /\ EndsWith(args.payload[1], DOT_JSON)

IsArrayPayload == IsJsonPayload /\ payload_file.exists /\ "array" \in DOMAIN payload_file.data

\* a malformed size token, an action other than upload/download, fewer than
\* three dash-separated parts, a count not ending in x
MalformedTokens ==
    {T_BadSize, T_NoDigits, T_LowerUnit, T_NewlineSize, T_BadAction, T_CapAction, T_TwoParts, T_OnePart,
     T_NoX, T_NoXRam}

\* the payloads the claim calls invalid
InvalidPayload ==
    \/ ~IsJsonPayload /\ \E i \in 1..Len(args.payload) : args.payload[i] \in MalformedTokens
    \/ IsJsonPayload /\ ~payload_file.exists
    \/ IsArrayPayload /\ \E i \in 1..Len(payload_file.data.array) : payload_file.data.array[i] \in InvalidItems

\* C5: with an invalid payload no external process is started and the
\* artifact is not written, and once parse_payload has run the error is
\* caught and the exit code is 1.
C5_InvalidPayloadFailsFirst ==
    InvalidPayload =>
        /\ trace = <<>>
        /\ running = {}
        /\ artifact.writes = 0 /\ ~artifact.exists
        /\ pc # <<"parse", 0>> => error.raised /\ ExitCode(1)

\* an invalid payload was parsed and the run ended with 1
C5_Witness == InvalidPayload /\ ExitCode(1) /\ error.raised /\ AnyStart = {}

\* C6: whatever clear returns, the build of that client is started next;
\* the rebuild fails exactly when the build returns non-zero.
C6_ClearNeverAborts ==
    \A c \in Clients :
        /\ \A i \in Exits("clear", c) :
              IF i = Len(trace)
              THEN pc = <<"build", c>> /\ ~Exited_
              ELSE trace[i + 1].step = "build" /\ trace[i + 1].client = c /\ trace[i + 1].ev = "start"
        /\ \A i \in Exits("build", c) :
              IF trace[i].rc # 0
              THEN i = Len(trace) /\ ExitCode(1) /\ error.at = "build"
              ELSE IF i = Len(trace)
                   THEN pc = <<"run", c>> /\ ~Exited_
                   ELSE trace[i + 1].step = "execute" /\ trace[i + 1].client = c /\ trace[i + 1].ev = "start"

\* a clear failed, the build after it succeeded and the runner was started
C6_Witness ==
    \E c \in Clients :
        /\ \E i \in Exits("clear", c) : trace[i].rc # 0
        /\ \E i \in Exits("build", c) : trace[i].rc = 0
        /\ Starts("execute", c) # {}

BothClientsCompleted == \A c \in Clients : \E i \in Exits("execute", c) : trace[i].rc = 0

\* C7: at exit the artifact has been removed if and only if both clients
\* completed and the table was printed; a run that aborts after the artifact
\* was written leaves it in place.
C7_ArtifactRemovedOnSuccessOnly ==
    Exited_ =>
        /\ (artifact.writes > 0 /\ ~artifact.exists) <=> (BothClientsCompleted /\ TablePrinted)
        /\ (ExitCode(1) /\ artifact.writes > 0) => artifact.exists

\* a run aborted by a failed step after the artifact was written
C7_Witness == ExitCode(1) /\ artifact.writes = 1 /\ artifact.exists /\ FatalFailures # {}

Writes == {i \in 1..Len(trace) : trace[i].step = "write"}

WorkloadReaders == Starts("prep", 0) \cup Starts("execute", 1) \cup Starts("execute", 2)

\* C8: the artifact is written once, before prep and before any step of a
\* client, and is neither written nor deleted until client 2's execute has
\* ended; prep and both runners are given the artifact's path and find the
\* same workload there.
C8_ArtifactWrittenOnce ==
    /\ artifact.writes <= 1
    /\ Cardinality(Writes) = artifact.writes
    /\ \A i \in AnyStart : \E j \in Writes : j < i
    /\ \A i \in WorkloadReaders :
          /\ trace[i].path # NoPath
          /\ trace[i].path = artifact.path
          /\ trace[i].file # NoWorkload
          /\ trace[i].file = workload
    /\ artifact.unlinks > 0 => Exits("execute", 2) # {}
    /\ (artifact.writes = 1 /\ artifact.unlinks = 0) => artifact.exists /\ artifact.content = workload

\* prep and both runners were started
C8_Witness ==
    /\ Starts("prep", 0) # {} /\ Starts("execute", 1) # {} /\ Starts("execute", 2) # {}
    /\ \A i \in WorkloadReaders : trace[i].file = workload

(***************************************************************************)
(* Properties of parse_payload.                                            *)
(***************************************************************************)
Parsed == pc # <<"parse", 0>>

AllValidTokens == \A i \in 1..Len(args.payload) : args.payload[i] \in ValidTokens

DescOf(tok) == CHOOSE d \in ValidDescs : Render(d) = tok

RECURSIVE ConcatExpansions(_)
ConcatExpansions(toks) ==
    IF toks = <<>> THEN <<>>
    ELSE generate_tasks_from_workload_name(Head(toks)).tasks \o ConcatExpansions(Tail(toks))

RECURSIVE SumCounts(_)
SumCounts(toks) == IF toks = <<>> THEN 0 ELSE DescOf(Head(toks)).n + SumCounts(Tail(toks))

\* C9: for a non-empty list of valid name tokens parse_payload returns the
\* concatenation, in argument order, of the tokens' expansions, as many
\* tasks as the sum of the counts, and filesOnDisk true iff no token has the
\* -ram suffix.
C9_NameTokensConcatenated ==
    (Parsed /\ AllValidTokens) =>
        /\ ~error.raised
        /\ workload.tasks = ConcatExpansions(args.payload)
        /\ Len(workload.tasks) = SumCounts(args.payload)
        /\ workload.filesOnDisk <=> (\A i \in 1..Len(args.payload) : ~DescOf(args.payload[i]).ram)

\* a -ram token followed by a token without the suffix was parsed
C9_Witness ==
    /\ Parsed /\ AllValidTokens /\ Len(args.payload) = MaxTokens
    /\ DescOf(args.payload[1]).ram /\ ~DescOf(args.payload[MaxTokens]).ram
    /\ ~workload.filesOnDisk

\* C10: in a JSON array, a fragment with tasks and filesOnDisk = false makes
\* the resulting filesOnDisk false, whatever comes before or after it.
C10_FragmentFlagAnded ==
    (Parsed /\ IsArrayPayload /\ ~error.raised) =>
        ((\E i \in 1..Len(payload_file.data.array) :
              LET item == payload_file.data.array[i]
              IN  "tasks" \in DOMAIN item /\ "filesOnDisk" \in DOMAIN item /\ ~item.filesOnDisk)
         => ~workload.filesOnDisk)

(***************************************************************************)
(* The functions called on their own.  call holds the arguments, ret the   *)
(* values returned so far, one field per function.                         *)
(***************************************************************************)
\* main() is not running
NoMain ==
    /\ args = NoCall
    /\ payload_file = NoFile
    /\ pc = <<"call", 0>>
    /\ workload = NoWorkload
    /\ workload_path = NoPath
    /\ artifact = [exists |-> FALSE, path |-> NoPath, content |-> NoWorkload, writes |-> 0, unlinks |-> 0]
    /\ running = {}
    /\ trace = <<>>
    /\ cwd = "INVOCATION_DIR"
    /\ output = <<>>
    /\ metrics = <<>>
    /\ table = <<>>
    /\ exit_status = [exited |-> FALSE]
    /\ error = NoError

mainVars == <<args, payload_file, pc, workload, workload_path, artifact, running, trace, cwd,
              output, metrics, table, exit_status, error>>

\* the function named fn has returned
Returned(fn) == fn \in DOMAIN ret

\* the function named fn returns r
Return(fn, r) ==
    /\ ~Returned(fn)
    /\ ret' = Put(ret, fn, r)
    /\ UNCHANGED <<call, mainVars>>

(***************************************************************************)
(* size_from_str on its own.                                               *)
(***************************************************************************)
\* longest run of digits at the start of a size string
MaxSizeDigits == 2

NL == <<"\n">>

\* what follows the digits: the five units, and near misses
SizeSuffixes ==
    { KiB, MiB, GiB, BYTE, BYTES,
      <<>>, <<"B">>, <<"k", "i", "b">>, <<"M", "B">>, <<"b", "y", "t">>, BYTES \o <<"s">>,
      MiB \o <<"x">>, MiB \o <<" ">>, <<" ">> \o MiB, MiB \o KiB,
      KiB \o NL, BYTES \o NL, NL, GiB \o NL \o NL, NL \o MiB }

\* what precedes the digits
SizePrefixes == {<<>>, <<" ">>, <<"-">>, <<"x">>}

\* the byte count is held in 32 bits here: no more than one GiB
FitsInt(d, suf) == StartsWith(suf, GiB) => DigitsVal(d) <= 1

SizeStrings ==
    {s[1] \o s[2] \o s[3] :
        s \in {t \in SizePrefixes \X SeqsUpTo({"0", "1", "9"}, MaxSizeDigits) \X SizeSuffixes : FitsInt(t[2], t[3])}}

InitSize ==
    /\ NoMain
    /\ \E s \in SizeStrings : call = [of |-> "size_from_str", size_str |-> s]
    /\ ret = [of |-> "size_from_str"]

\* size_from_str(size_str)
SizeFromStr == Return("size", size_from_str(call.size_str))

NextSize == SizeFromStr

SpecSize == InitSize /\ [][NextSize]_vars

\* the multiplier of a unit
UnitMultiplier(u) ==
    IF u = KiB THEN 1024 ELSE IF u = MiB THEN 1024 * 1024 ELSE IF u = GiB THEN 1024 * 1024 * 1024 ELSE 1

\* s is decimal digits followed by exactly one of the five units
HasExactShape(s) ==
    \E u \in {KiB, MiB, GiB, BYTE, BYTES} : EndsWith(s, u) /\ AllDigits(SubSeq(s, 1, Len(s) - Len(u)))

UnitOf(s) == CHOOSE u \in {KiB, MiB, GiB, BYTE, BYTES} : EndsWith(s, u) /\ AllDigits(SubSeq(s, 1, Len(s) - Len(u)))

\* C11: size_from_str returns n times the unit's multiplier for a string of
\* decimal digits n followed by exactly one of KiB, MiB, GiB, byte, bytes,
\* and raises an error naming the string for every other string.
C11_SizeFromStrExactShape ==
    Returned("size") =>
        IF HasExactShape(call.size_str)
        THEN /\ ~ret.size.raised
             /\ ret.size.value = DigitsVal(SubSeq(call.size_str, 1, Len(call.size_str) - Len(UnitOf(call.size_str))))
                                     * UnitMultiplier(UnitOf(call.size_str))
        ELSE ret.size.raised /\ ret.size.msg = call.size_str

\* the same for the strings that do not end in a newline
C11_ExceptFinalNewline == EndsWith(call.size_str, NL) \/ C11_SizeFromStrExactShape

(***************************************************************************)
(* generate-tmp-workload.py                                                *)
(***************************************************************************)
parse_filename(filename) ==
    LET name1 == Remove(filename, DOT_JSON)
        ram == EndsWith(name1, DASH_RAM)
        name == IF ram THEN SubSeq(name1, 1, Len(name1) - 4) ELSE name1
        parts == Split(name, "-")
    IN  IF Len(parts) < 3 THEN [raised |-> TRUE, exc |-> "Exception", at |-> "name"]
        ELSE IF parts[1] \notin {UPLOAD, DOWNLOAD} THEN [raised |-> TRUE, exc |-> "Exception", at |-> "action"]
        ELSE IF ~EndsWith(Join(SubSeq(parts, 3, Len(parts)), <<"-">>), <<"x">>)
        THEN [raised |-> TRUE, exc |-> "Exception", at |-> "count"]
        ELSE LET count_part == Join(SubSeq(parts, 3, Len(parts)), <<"-">>)
                 n == int(Remove(SubSeq(count_part, 1, Len(count_part) - 1), <<"_">>))
             IN  IF n.raised THEN [raised |-> TRUE, exc |-> "ValueError", at |-> "int"]
                 ELSE [raised |-> FALSE, action |-> parts[1], file_size_str |-> parts[2],
                       num_files |-> n.value, files_on_disk |-> ~ram]

\* generate_workload, lines 77-103: the loop over range(num_files) with i counted from 0
WorkloadTasksFromZero(action, file_size_str, file_size, num_files) ==
    [i \in 1..num_files |->
        [action |-> action,
         key |-> action \o <<"/">> \o file_size_str \o <<"-">> \o FormatUnderscore(num_files) \o <<"x", "/">>
                 \o ZeroPad(ToDigits(i - 1), IF num_files > 1 THEN IntLog10(num_files) + 1 ELSE 1),
         size |-> file_size]]

\* generate_workload, lines 77-103: dirname, int_width and the loop
WorkloadTasks(action, file_size_str, file_size, num_files) ==
    [i \in 1..num_files |->
        [action |-> action,
         key |-> action \o <<"/">> \o file_size_str \o <<"-">> \o FormatUnderscore(num_files) \o <<"x", "/">>
                 \o ZeroPad(ToDigits(i), IF num_files > 1 THEN IntLog10(num_files) + 1 ELSE 1),
         size |-> file_size]]

\* generate_workload after parse_filename returned p and size_from_str returned sz
WorkloadOf(p, sz) ==
    IF sz.raised THEN [raised |-> TRUE, exc |-> "Exception", at |-> "size"]
    ELSE [raised |-> FALSE,
          workload |-> [version |-> VERSION,
                        comment |-> "Temporary workload generated from filename",
                        filesOnDisk |-> p.files_on_disk,
                        maxRepeatCount |-> DEFAULT_MAX_REPEAT_COUNT,
                        maxRepeatSecs |-> DEFAULT_MAX_REPEAT_SECS,
                        tasks |-> WorkloadTasks(p.action, p.file_size_str, sz.value, p.num_files)]]

WorkloadOfParsed(p) == IF p.raised THEN p ELSE WorkloadOf(p, size_from_str(p.file_size_str))

\* what generate_workload writes to args.output
generate_workload(filename) == WorkloadOfParsed(parse_filename(filename))

(***************************************************************************)
(* build-workloads.py                                                      *)
(***************************************************************************)
DEFAULT_NUM_FILES == 1

CRC32 == <<"C", "R", "C", "3", "2">>
CRC32C == <<"C", "R", "C", "3", "2", "C">>
SHA1 == <<"S", "H", "A", "1">>
SHA256 == <<"S", "H", "A", "2", "5", "6">>

\* str.lower() of the characters of a checksum name
lower(str) ==
    [i \in 1..Len(str) |->
        CASE str[i] = "C" -> "c" [] str[i] = "R" -> "r" [] str[i] = "S" -> "s" [] str[i] = "H" -> "h"
          [] str[i] = "A" -> "a" [] str[i] = "M" -> "m" [] str[i] = "D" -> "d" [] OTHER -> str[i]]

\* lines 67-71: a checksum of None is the field left out
Dirname(file_size_str, num_files, src_json) ==
    file_size_str \o <<"-">> \o FormatUnderscore(num_files) \o <<"x">>
    \o (IF "checksum" \in DOMAIN src_json THEN <<"-">> \o lower(src_json.checksum) ELSE <<>>)

\* lines 88-99
BuildTasks(action, dirname, file_size, num_files) ==
    [i \in 1..num_files |->
        [action |-> action,
         key |-> action \o <<"/">> \o dirname \o <<"/">>
                 \o ZeroPad(ToDigits(i), IF num_files > 1 THEN IntLog10(num_files) + 1 ELSE 1),
         size |-> file_size]]

\* 'checksum': checksum of dst_json
WithChecksum(src_json, dst_json) ==
    IF "checksum" \in DOMAIN src_json THEN Put(dst_json, "checksum", src_json.checksum) ELSE dst_json

\* lines 56-99, given the result of size_from_str and num_files
BuildWith(src_json, sz, num_files) ==
    IF sz.raised THEN [raised |-> TRUE, exc |-> "Exception", at |-> "size"]
    ELSE IF src_json.action \notin {DOWNLOAD, UPLOAD} THEN [raised |-> TRUE, exc |-> "AssertionError", at |-> "action"]
    ELSE IF "checksum" \in DOMAIN src_json /\ src_json.checksum \notin {CRC32, CRC32C, SHA1, SHA256}
    THEN [raised |-> TRUE, exc |-> "AssertionError", at |-> "checksum"]
    ELSE [raised |-> FALSE,
          dst_json |-> WithChecksum(src_json,
                       [version |-> VERSION,
                        comment |-> IF "comment" \in DOMAIN src_json THEN src_json.comment ELSE "",
                        filesOnDisk |-> IF "filesOnDisk" \in DOMAIN src_json THEN src_json.filesOnDisk ELSE TRUE,
                        maxRepeatCount |-> IF "maxRepeatCount" \in DOMAIN src_json
                                           THEN src_json.maxRepeatCount ELSE DEFAULT_MAX_REPEAT_COUNT,
                        maxRepeatSecs |-> IF "maxRepeatSecs" \in DOMAIN src_json
                                          THEN src_json.maxRepeatSecs ELSE DEFAULT_MAX_REPEAT_SECS,
                        tasks |-> BuildTasks(src_json.action, Dirname(src_json.fileSize, num_files, src_json),
                                             sz.value, num_files)])]

\* src_json is what json.load read from src_file; dst_json is what is written
build_workload(src_json) ==
    IF {"action", "fileSize"} \ DOMAIN src_json # {} THEN [raised |-> TRUE, exc |-> "KeyError", at |-> "src_json"]
    ELSE BuildWith(src_json, size_from_str(src_json.fileSize),
                   IF "numFiles" \in DOMAIN src_json THEN src_json.numFiles ELSE DEFAULT_NUM_FILES)

(***************************************************************************)
(* The three task expansions and the compact JSON form, called on their    *)
(* own with the same action, size token and file count.                    *)
(***************************************************************************)
\* the largest file count
MaxFiles == 11

TaskSizes == {S_1MiB, S_2KiB, S_3bytes}

TaskCalls ==
    {[of |-> "tasks", action |-> a, fileSize |-> sz, numFiles |-> n, ram |-> r] :
        a \in {UPLOAD, DOWNLOAD}, sz \in TaskSizes, n \in 1..MaxFiles, r \in BOOLEAN}
    \cup {[of |-> "tasks", action |-> a, fileSize |-> sz, numFiles |-> n, ram |-> FALSE, checksum |-> c] :
        a \in {UPLOAD, DOWNLOAD}, sz \in TaskSizes, n \in 1..MaxFiles, c \in {CRC32, SHA256}}

\* the name token of the call
NameOf(c) ==
    c.action \o <<"-">> \o c.fileSize \o <<"-">> \o str_int(c.numFiles) \o <<"x">>
    \o (IF c.ram THEN DASH_RAM ELSE <<>>)

\* the compact spec of the call, as an element of a payload array
CompactOf(c) == [action |-> c.action, fileSize |-> c.fileSize, numFiles |-> c.numFiles, filesOnDisk |-> ~c.ram]

\* the workload src json of the call
SrcJsonOf(c) ==
    IF "checksum" \in DOMAIN c THEN Put(CompactOf(c), "checksum", c.checksum) ELSE CompactOf(c)

InitTasks ==
    /\ NoMain
    /\ call \in TaskCalls
    /\ ret = [of |-> "tasks"]

\* compare.py
GenerateTasksCall == Return("compare", generate_tasks_from_workload_name(NameOf(call)))

\* compare.py, the same name a second time
GenerateTasksAgain == Returned("compare") /\ Return("again", generate_tasks_from_workload_name(NameOf(call)))

\* generate-tmp-workload.py --filename {name}.json
GenerateWorkloadCall == Return("tmp", generate_workload(NameOf(call) \o DOT_JSON))

\* build-workloads.py
BuildWorkloadCall == Return("build", build_workload(SrcJsonOf(call)))

\* compare.py --payload w.json, the file holding an array of the one compact spec
ParseCompactCall == Return("compact", parse_payload(<<JSON_PATH>>, File([array |-> <<CompactOf(call)>>])))

NextTasks ==
    \/ GenerateTasksCall
    \/ GenerateTasksAgain
    \/ GenerateWorkloadCall
    \/ BuildWorkloadCall
    \/ ParseCompactCall

SpecTasks == InitTasks /\ [][NextTasks]_vars

(***************************************************************************)
(* Properties of the task expansion.                                       *)
(***************************************************************************)
\* the task lists returned by compare.py and build-workloads.py
GroupTaskLists ==
    (IF Returned("compare") /\ ~ret.compare.raised THEN {ret.compare.tasks} ELSE {})
    \cup (IF Returned("build") /\ ~ret.build.raised THEN {ret.build.dst_json.tasks} ELSE {})

\* the last component of a key
IndexPart(key) == Drop(key, CHOOSE i \in 1..Len(key) : key[i] = "/" /\ \A j \in (i + 1)..Len(key) : key[j] # "/")

\* the number of decimal digits of n
DigitCount(n) == Len(ToDigits(n))

\* the code point of a character of a key, for the characters that may differ
CodePoint(ch) ==
    IF IsDigit(ch) THEN 48 + DigitVal(ch)
    ELSE CASE ch = "-" -> 45 [] ch = "/" -> 47 [] ch = "_" -> 95 [] OTHER -> 100

\* a sorts before b as a string, given that they agree before position k
RECURSIVE LexLessFrom(_, _, _)
LexLessFrom(a, b, k) ==
    IF k > Len(b) THEN FALSE
    ELSE IF k > Len(a) THEN TRUE
    ELSE IF a[k] = b[k] THEN LexLessFrom(a, b, k + 1)
    ELSE CodePoint(a[k]) < CodePoint(b[k])

\* a sorts before b as a string
LexLess(a, b) == LexLessFrom(a, b, 1)

\* C12: the tasks of one (action, size, n) group carry the indices 1..n in
\* order, each zero-padded to as many characters as n has decimal digits; the
\* n keys are pairwise distinct and sort as strings in the order of the list.
C12_PaddedToDigitCount ==
    \A ts \in GroupTaskLists :
        /\ Len(ts) = call.numFiles
        /\ \A i \in 1..Len(ts) :
              /\ AllDigits(IndexPart(ts[i].key))
              /\ DigitsVal(IndexPart(ts[i].key)) = i
              /\ Len(IndexPart(ts[i].key)) = DigitCount(call.numFiles)
        /\ \A i, j \in 1..Len(ts) : i # j => ts[i].key # ts[j].key
        /\ \A i, j \in 1..Len(ts) : i < j <=> LexLess(ts[i].key, ts[j].key)

\* ten files were expanded by both scripts: 01..10
C12_Witness ==
    /\ Returned("compare") /\ Returned("build") /\ call.numFiles = 10
    /\ IndexPart(ret.compare.tasks[1].key) = <<"0", "1">>
    /\ IndexPart(ret.build.dst_json.tasks[10].key) = <<"1", "0">>

\* floor(log10(n)) + 1 for n >= 1
FloorLog10Plus1(n) == CHOOSE k \in 1..n : 10 ^ (k - 1) <= n /\ n < 10 ^ k

\* ceil(log10(n)) for n >= 1, and 1 where that is 0
CeilLog10Min1(n) == IF n = 1 THEN 1 ELSE CHOOSE k \in 1..n : 10 ^ (k - 1) < n /\ n <= 10 ^ k

\* the directory name: size token, grouped count, x, and the lower-cased checksum name if there is one
ExpectedDirname ==
    call.fileSize \o <<"-">> \o FormatUnderscore(call.numFiles) \o <<"x">>
    \o (IF "checksum" \in DOMAIN call THEN <<"-">> \o lower(call.checksum) ELSE <<>>)

\* the directory name without a checksum, as a name token gives it
NameDirname == call.fileSize \o <<"-">> \o FormatUnderscore(call.numFiles) \o <<"x">>

\* the keys of ts are {action}/{dirname}/{index padded to width}, for the indices 1..numFiles
KeysPaddedTo(ts, dirname, width) ==
    /\ Len(ts) = call.numFiles
    /\ \A i \in 1..Len(ts) :
          ts[i].key = call.action \o <<"/">> \o dirname \o <<"/">> \o ZeroPad(ToDigits(i), width)

\* C13, as the code has it: the keys are {action}/{dirname}/{paddedIndex} for
\* the indices 1..numFiles, each padded to floor(log10(numFiles)) + 1 digits,
\* the number of decimal digits of numFiles.
C13_PaddedToFloorLog10Plus1 ==
    /\ (Returned("compare") /\ ~ret.compare.raised)
          => KeysPaddedTo(ret.compare.tasks, NameDirname, FloorLog10Plus1(call.numFiles))
    /\ (Returned("build") /\ ~ret.build.raised)
          => KeysPaddedTo(ret.build.dst_json.tasks, ExpectedDirname, FloorLog10Plus1(call.numFiles))

\* C13 as stated: each index is padded to ceil(log10(numFiles)) digits, at
\* least 1, in keys of the form {action}/{dirname}/{paddedIndex}.
C13_PaddedToCeilLog10 ==
    /\ (Returned("compare") /\ ~ret.compare.raised)
          => KeysPaddedTo(ret.compare.tasks, NameDirname, CeilLog10Min1(call.numFiles))
    /\ (Returned("build") /\ ~ret.build.raised)
          => KeysPaddedTo(ret.build.dst_json.tasks, ExpectedDirname, CeilLog10Min1(call.numFiles))

\* ten files with a checksum were expanded: the keys end in 01..10
C13_Witness ==
    /\ Returned("compare") /\ Returned("build") /\ call.numFiles = 10 /\ "checksum" \in DOMAIN call
    /\ Len(IndexPart(ret.build.dst_json.tasks[1].key)) = 2
    /\ Len(IndexPart(ret.compare.tasks[1].key)) = 2

\* the task list a call returned
TasksReturned(fn) ==
    IF fn = "tmp" THEN ret.tmp.workload.tasks
    ELSE IF fn = "build" THEN ret.build.dst_json.tasks
    ELSE IF fn = "compact" THEN ret.compact.workload.tasks
    ELSE ret[fn].tasks

Expanders == {"compare", "again", "tmp", "build", "compact"}

\* C18: without a checksum, compare.py, generate-tmp-workload.py and
\* build-workloads.py return the same list of (action, key, size) tasks for
\* the same action, size token and file count; a second expansion returns
\* the same list again, and so does the compact JSON spec of the same values.
C18_OneExpansion ==
    "checksum" \notin DOMAIN call =>
        /\ \A fn \in Expanders : Returned(fn) => ~ret[fn].raised
        /\ \A f, g \in Expanders : (Returned(f) /\ Returned(g)) => TasksReturned(f) = TasksReturned(g)
        /\ \A fn \in Expanders : Returned(fn) => Len(TasksReturned(fn)) = call.numFiles

\* all five expansions of ten in-memory files have returned
C18_Witness ==
    /\ "checksum" \notin DOMAIN call /\ call.numFiles = 10 /\ call.ram
    /\ \A fn \in Expanders : Returned(fn)
    /\ TasksReturned("tmp")[10].key = TasksReturned("build")[10].key

(***************************************************************************)
(* parse_metrics on its own.                                               *)
(***************************************************************************)
\* the largest number of lines of an output
MaxLines == 3

N_2 == <<"2">>
N_7 == <<"7">>
N__5 == <<".", "5">>

RunLine2 == [text |-> "Run:2 Secs:7 Gb/s:.5", run |-> <<N_2, N_7, N__5>>]
ThroughputLine2 == [text |-> "Overall Throughput (Gb/s) ... again", throughput |-> <<N_7, N_7, N__5, N_9_>>]
BadThroughputLine == [text |-> "Overall Throughput (Gb/s) Median:7 Mean:1.2.3 ...", throughput |-> <<N_7, N_1_2_3, N_7, N_7>>]
\* a line on which two patterns match
RunAndRssLine == [text |-> "Run:2 Secs:7 Gb/s:.5 Peak RSS:7 MiB", run |-> <<N_2, N_7, N__5>>, rss |-> <<N_7>>]

MetricLines ==
    {RunLine, RunLine2, ThroughputLine, ThroughputLine2, DurationLine, RssLine, OtherLine,
     BadRunLine, BadThroughputLine, RunAndRssLine}

InitMetrics ==
    /\ NoMain
    /\ \E lines \in SeqsUpTo(MetricLines, MaxLines) : call = [of |-> "parse_metrics", output |-> lines]
    /\ ret = [of |-> "parse_metrics"]

\* parse_metrics(output)
ParseMetricsCall == Return("metrics", parse_metrics(call.output))

NextMetrics == ParseMetricsCall

SpecMetrics == InitMetrics /\ [][NextMetrics]_vars

(***************************************************************************)
(* Properties of parse_metrics.                                            *)
(***************************************************************************)
\* parse_metrics returned a MetricSet
MetricsReturned == Returned("metrics") /\ ~ret.metrics.raised

\* the lines of the output on which the pattern named p matches, in order
Matching(p) == SelectSeq(call.output, LAMBDA line : p \in DOMAIN line)

\* the lines on which some pattern matches
MatchingAny == SelectSeq(call.output, LAMBDA line : DOMAIN line # {"text"})

\* the record of a per-run line
RunRecord(line) ==
    [run |-> DigitsVal(line.run[1]), secs |-> float(line.run[2]).value, gbps |-> float(line.run[3]).value]

ThroughputKeys == <<"throughput_median", "throughput_mean", "throughput_min", "throughput_max">>

DurationKeys == <<"duration_median", "duration_mean", "duration_min", "duration_max">>

\* the four fields hold the values of the last line matching p, or are unset if there is none
LastWins(m, p, keys) ==
    IF Matching(p) = <<>> THEN \A i \in 1..4 : keys[i] \notin DOMAIN m
    ELSE \A i \in 1..4 :
            keys[i] \in DOMAIN m /\ m[keys[i]] = float(Matching(p)[Len(Matching(p))][p][i]).value

\* C14: in the MetricSet parse_metrics returns, runs is the sequence of the
\* lines matching the per-run pattern, in the order of the text, repeats
\* kept; throughput, duration and peak RSS hold the values of the last line
\* matching their pattern and are unset if no line does; the lines matching
\* no pattern change nothing.
C14_LinesInOrderLastWins ==
    MetricsReturned =>
        /\ Len(ret.metrics.runs) = Len(Matching("run"))
        /\ \A i \in 1..Len(ret.metrics.runs) : ret.metrics.runs[i] = RunRecord(Matching("run")[i])
        /\ LastWins(ret.metrics, "throughput", ThroughputKeys)
        /\ LastWins(ret.metrics, "duration", DurationKeys)
        /\ IF Matching("rss") = <<>> THEN "peak_rss" \notin DOMAIN ret.metrics
           ELSE /\ "peak_rss" \in DOMAIN ret.metrics
                /\ ret.metrics.peak_rss = float(Matching("rss")[Len(Matching("rss"))].rss[1]).value
        /\ ret.metrics = parse_metrics(MatchingAny)

\* run 2 came before run 1 and a second throughput line replaced the first
C14_Witness ==
    /\ MetricsReturned
    /\ call.output = <<RunLine2, ThroughputLine, ThroughputLine2>> \/ call.output = <<RunLine2, RunLine, RunLine2>>
    /\ ret.metrics.runs[1].run = 2
    /\ "duration_median" \notin DOMAIN ret.metrics

\* C17: in every MetricSet parse_metrics returns, the four throughput
\* fields are all set or all unset, and so are the four duration fields.
C17_AggregatesAllOrNone ==
    MetricsReturned =>
        \A keys \in {ThroughputKeys, DurationKeys} :
            \/ \A i \in 1..4 : keys[i] \in DOMAIN ret.metrics
            \/ \A i \in 1..4 : keys[i] \notin DOMAIN ret.metrics

\* a MetricSet with the throughput fields set and the duration fields unset
C17_Witness ==
    /\ MetricsReturned
    /\ \A i \in 1..4 : ThroughputKeys[i] \in DOMAIN ret.metrics /\ DurationKeys[i] \notin DOMAIN ret.metrics

(***************************************************************************)
(* format_comparison_table on its own, on the MetricSets parse_metrics     *)
(* returns for two outputs.                                                *)
(***************************************************************************)
\* the outputs with each of the throughput, duration and peak RSS lines there or not
TableOutputs ==
    {SelectSeq(<<RunLine, ThroughputLine2, DurationLine, RssLine>>, LAMBDA line : line \in keep) :
        keep \in SUBSET {ThroughputLine2, DurationLine, RssLine}}
    \cup {<<RunLine, ThroughputLine, DurationLine, RssLine>>, <<OtherLine>>}

InitTable ==
    /\ NoMain
    /\ \E o1 \in TableOutputs, o2 \in TableOutputs : call = [of |-> "table", output1 |-> o1, output2 |-> o2]
    /\ ret = [of |-> "table"]

\* metrics1 = parse_metrics(output1)
ParseMetrics1Call == Return("metrics1", parse_metrics(call.output1))

\* metrics2 = parse_metrics(output2)
ParseMetrics2Call == Return("metrics2", parse_metrics(call.output2))

\* format_comparison_table(..., metrics1, ..., metrics2)
FormatTableCall ==
    /\ Returned("metrics1") /\ Returned("metrics2")
    /\ Return("table", format_comparison_table("crt-c", "main", ret.metrics1, "crt-c", "feature", ret.metrics2))

NextTable ==
    \/ ParseMetrics1Call
    \/ ParseMetrics2Call
    \/ FormatTableCall

SpecTable == InitTable /\ [][NextTable]_vars

(***************************************************************************)
(* Properties of format_comparison_table.                                  *)
(***************************************************************************)
TableReturned == Returned("table") /\ ~ret.table.raised

\* the index of the row with the label
RowOf(label) == CHOOSE i \in 1..Len(ret.table.rows) : ret.table.rows[i].label = label

\* the rows strictly between the rows labelled from and to
RowsBetween(from, to) == SubSeq(ret.table.rows, RowOf(from) + 1, RowOf(to) - 1)

\* the aggregate is there: all four fields are set
Present(m, keys) == \A i \in 1..4 : keys[i] \in DOMAIN m

StatLabels == <<"  Median", "  Mean", "  Min", "  Max">>

\* the four rows Median/Mean/Min/Max of the aggregate, or the one row saying it is not available
SectionAsClaimed(rows, keys) ==
    IF Present(ret.metrics1, keys) /\ Present(ret.metrics2, keys)
    THEN /\ Len(rows) = 4
         /\ \A i \in 1..4 : rows[i] = [label |-> StatLabels[i],
                                       c1 |-> Format2f(ret.metrics1[keys[i]]),
                                       c2 |-> Format2f(ret.metrics2[keys[i]])]
    ELSE rows = <<[label |-> "  (metrics not available)", c1 |-> <<>>, c2 |-> <<>>]>>

\* the Peak RSS cell of one side
RssCell(m) == IF "peak_rss" \in DOMAIN m THEN Format2f(m.peak_rss) ELSE <<"N", "/", "A">>

\* C16: the Throughput section is the four rows Median/Mean/Min/Max if and
\* only if the throughput aggregate is there on both sides, and otherwise the
\* one row "(metrics not available)"; the same for the Duration section, each
\* whatever the other is; the Peak RSS row shows N/A on the side whose value
\* is missing and the value on the other.
C16_SectionsIndependent ==
    TableReturned =>
        /\ SectionAsClaimed(RowsBetween("Throughput (Gb/s)", "Duration (Secs)"), ThroughputKeys)
        /\ SectionAsClaimed(RowsBetween("Duration (Secs)", "Peak RSS (MiB)"), DurationKeys)
        /\ RowOf("Peak RSS (MiB)") = Len(ret.table.rows)
        /\ ret.table.rows[Len(ret.table.rows)].c1 = RssCell(ret.metrics1)
        /\ ret.table.rows[Len(ret.table.rows)].c2 = RssCell(ret.metrics2)

\* throughput on one side only, duration on both, peak RSS on the other side only
C16_Witness ==
    /\ TableReturned
    /\ Present(ret.metrics1, ThroughputKeys) /\ ~Present(ret.metrics2, ThroughputKeys)
    /\ Present(ret.metrics1, DurationKeys) /\ Present(ret.metrics2, DurationKeys)
    /\ "peak_rss" \notin DOMAIN ret.metrics1 /\ "peak_rss" \in DOMAIN ret.metrics2
    /\ Len(ret.table.rows) = 9

(***************************************************************************)
(* Properties of main(), continued.                                        *)
(***************************************************************************)
\* C15: whatever the runners print, parse_metrics and
\* format_comparison_table do not raise, and a run in which every step of
\* both clients succeeded ends with the table printed and exit code 0.
C15_MetricTextNeverFails ==
    /\ error.raised => error.at \notin {"metrics", "table"}
    /\ (Exited_ /\ AllFatalSucceeded) => TablePrinted /\ ExitCode(0)

\* the working directories in which the step of client c was started
StartDirs(step, c) == {trace[i].cwd : i \in Starts(step, c)}

\* C19: client 2's clear, build and execute are started in the working
\* directory in which client 1's clear, build and execute were started.
C19_SameWorkingDirectory ==
    \A step \in {"clear", "build", "execute"} :
        (Starts(step, 1) # {} /\ Starts(step, 2) # {}) => StartDirs(step, 1) = StartDirs(step, 2)

(***************************************************************************)
(* Properties of parse_payload, continued.                                 *)
(***************************************************************************)
\* the payload is one .json path whose top-level value is one object
IsSingleObject == IsJsonPayload /\ payload_file.exists /\ "array" \notin DOMAIN payload_file.data

\* C20: for a single .json path holding one object, parse_payload returns
\* the object itself as the workload and, as filesOnDisk, the object's
\* filesOnDisk or true if it has none; an object with a tasks list is
\* accepted whether or not it has a filesOnDisk key.
C20_SingleObjectUsedDirectly ==
    (Parsed /\ IsSingleObject) =>
        /\ "tasks" \in DOMAIN payload_file.data => ~error.raised
        /\ ~error.raised =>
              /\ workload = payload_file.data
              /\ parse_payload(args.payload, payload_file).files_on_disk
                     = (IF "filesOnDisk" \in DOMAIN payload_file.data THEN payload_file.data.filesOnDisk ELSE TRUE)

\* the same for the objects that have a filesOnDisk key
C20_WithFilesOnDiskKey ==
    (IsSingleObject /\ "filesOnDisk" \notin DOMAIN payload_file.data) \/ C20_SingleObjectUsedDirectly

(***************************************************************************)
(* dependencies.py: the dependency graph and its two traversals.           *)
(*                                                                         *)
(* Component names are opaque here, so each is one TLA+ string.  The dict  *)
(* DEPENDENCIES is kept as the sequence of its items, in the order the     *)
(* source declares them, because get_dependents iterates over items().     *)
(***************************************************************************)
DEPENDENCIES ==
    << [comp |-> "aws-c-common", deps |-> << >>],
       [comp |-> "aws-lc", deps |-> <<"aws-c-common">>],
       [comp |-> "s2n", deps |-> <<"aws-c-common">>],
       [comp |-> "aws-c-cal", deps |-> <<"aws-c-common", "aws-lc", "s2n">>],
       [comp |-> "aws-c-io", deps |-> <<"aws-c-common", "aws-c-cal", "s2n">>],
       [comp |-> "aws-checksums", deps |-> <<"aws-c-common">>],
       [comp |-> "aws-c-compression", deps |-> <<"aws-c-common">>],
       [comp |-> "aws-c-http",
        deps |-> <<"aws-c-common", "aws-c-io", "aws-c-compression">>],
       [comp |-> "aws-c-sdkutils", deps |-> <<"aws-c-common">>],
       [comp |-> "aws-c-auth",
        deps |-> <<"aws-c-common", "aws-c-io", "aws-c-http",
                   "aws-c-sdkutils", "aws-c-cal">>],
       [comp |-> "aws-c-s3",
        deps |-> <<"aws-c-common", "aws-lc", "s2n", "aws-c-cal", "aws-c-io",
                   "aws-checksums", "aws-c-compression", "aws-c-http",
                   "aws-c-sdkutils", "aws-c-auth">>],
       [comp |-> "aws-s3-transfer-manager-rs", deps |-> << >>],
       [comp |-> "runner-s3-c", deps |-> <<"aws-c-s3">>],
       [comp |-> "runner-s3-rust", deps |-> <<"aws-s3-transfer-manager-rs">>] >>

\* x in a Python list
InList(x, list) == \E k \in DOMAIN list : list[k] = x

\* DEPENDENCIES.get(component, [])
get_dependencies(component) ==
    LET hit == {i \in DOMAIN DEPENDENCIES : DEPENDENCIES[i].comp = component}
    IN  IF hit = {} THEN << >> ELSE DEPENDENCIES[CHOOSE i \in hit : TRUE].deps

\* the keys of the items whose list holds component, in declaration order
get_dependents(component) ==
    LET items == SelectSeq(DEPENDENCIES, LAMBDA it : InList(component, it.deps))
    IN  [i \in DOMAIN items |-> items[i].comp]

\* Mutant of Seen: the visited set is never consulted.
SeenNever(visited, comp) == FALSE

\* "if comp in visited"
Seen(visited, comp) == comp \in visited

\* the list the for loop of visit() walks
Neighbours(fn, comp) ==
    IF fn = "get_all_dependencies" THEN get_dependencies(comp)
                                   ELSE get_dependents(comp)

\* whether visit() appends comp once its loop is over: always in
\* get_all_dependencies, "if comp != component" in get_all_dependents
Appends(fn, component, comp) ==
    fn = "get_all_dependencies" \/ comp # component

(***************************************************************************)
(* The traversals, one step of visit() at a time.  call holds the running  *)
(* activation: the function, its argument, its locals visited and result,  *)
(* and the stack of visit() frames (innermost first).  A frame is at       *)
(* "enter" (about to test visited) or at "for" (in the loop, todo being    *)
(* the part of the list not yet walked).                                   *)
(***************************************************************************)
Traversals == {"get_all_dependencies", "get_all_dependents"}

UnknownComponent == "aws-c-unknown"

\* the keys of DEPENDENCIES
GraphComponents == {DEPENDENCIES[i].comp : i \in DOMAIN DEPENDENCIES}

\* the command line's component: any key, or a name the graph does not have
ComponentArgs == GraphComponents \cup {UnknownComponent}

EnterFrame(comp) == [comp |-> comp, line |-> "enter", todo |-> << >>]

InitDeps ==
    /\ NoMain
    /\ \E fn \in Traversals, c \in ComponentArgs :
         /\ call = [of |-> fn, component |-> c, visited |-> {},
                    result |-> << >>, stack |-> <<EnterFrame(c)>>]
         /\ ret = [of |-> fn]

Running == call.stack # << >>

\* "if comp in visited: return"
VisitSeen ==
    /\ Running
    /\ Head(call.stack).line = "enter"
    /\ Seen(call.visited, Head(call.stack).comp)
    /\ call' = [call EXCEPT !.stack = Tail(@)]
    /\ UNCHANGED <<ret, mainVars>>

\* "visited.add(comp)", then the for statement evaluates its list
VisitAdd ==
    /\ Running
    /\ Head(call.stack).line = "enter"
    /\ ~Seen(call.visited, Head(call.stack).comp)
    /\ \E comp \in {Head(call.stack).comp} :
         call' = [call EXCEPT
                    !.visited = @ \cup {comp},
                    !.stack = <<[comp |-> comp, line |-> "for",
                                 todo |-> Neighbours(call.of, comp)]>>
                              \o Tail(@)]
    /\ UNCHANGED <<ret, mainVars>>

\* one turn of the loop: visit(dep)
VisitNext ==
    /\ Running
    /\ Head(call.stack).line = "for"
    /\ Head(call.stack).todo # << >>
    /\ \E top \in {Head(call.stack)} :
         call' = [call EXCEPT
                    !.stack = <<EnterFrame(Head(top.todo)),
                                [top EXCEPT !.todo = Tail(@)]>>
                              \o Tail(@)]
    /\ UNCHANGED <<ret, mainVars>>

\* the loop is over: result.append(comp) where the function appends, return
VisitAppend ==
    /\ Running
    /\ Head(call.stack).line = "for"
    /\ Head(call.stack).todo = << >>
    /\ \E comp \in {Head(call.stack).comp} :
         call' = [call EXCEPT
                    !.result = IF Appends(call.of, call.component, comp)
                                 THEN Append(@, comp) ELSE @,
                    !.stack = Tail(@)]
    /\ UNCHANGED <<ret, mainVars>>

\* "return result"
ReturnResult ==
    /\ ~Running
    /\ Return(call.of, call.result)

NextDeps ==
    \/ VisitSeen
    \/ VisitAdd
    \/ VisitNext
    \/ VisitAppend
    \/ ReturnResult

SpecDeps == InitDeps /\ [][NextDeps]_vars

\* The interpreter runs a call to its end: a step that can be taken is taken.
SpecDepsFair == SpecDeps /\ WF_vars(NextDeps)

(***************************************************************************)
(* Properties of the traversals                                            *)
(***************************************************************************)
\* a lists b among its direct dependencies
DependsOn(a, b) == InList(b, get_dependencies(a))

RECURSIVE DependencyClosure(_)
DependencyClosure(S) ==
    LET T == S \cup {b \in GraphComponents : \E a \in S : DependsOn(a, b)}
    IN  IF T = S THEN S ELSE DependencyClosure(T)

RECURSIVE DependentClosure(_)
DependentClosure(S) ==
    LET T == S \cup {a \in GraphComponents : \E b \in S : DependsOn(a, b)}
    IN  IF T = S THEN S ELSE DependentClosure(T)

TransitiveDependencies(c) ==
    DependencyClosure({b \in GraphComponents : DependsOn(c, b)})

TransitiveDependents(c) ==
    DependentClosure({a \in GraphComponents : DependsOn(a, c)})

\* list holds exactly the members of S, each once
ListsEachOnce(list, S) ==
    /\ \A k \in DOMAIN list : list[k] \in S
    /\ \A x \in S : Cardinality({k \in DOMAIN list : list[k] = x}) = 1

DependenciesReturned == Returned("get_all_dependencies")

DependentsReturned == Returned("get_all_dependents")

BuildOrder ==
    DependenciesReturned =>
      \E c \in {call.component}, r \in {ret.get_all_dependencies} :
         /\ ListsEachOnce(r, TransitiveDependencies(c) \cup {c})
         /\ \A i \in DOMAIN r : \A d \in GraphComponents :
              DependsOn(r[i], d) => \E j \in 1..(i - 1) : r[j] = d
         /\ r[Len(r)] = c

ClearOrder ==
    DependentsReturned =>
      \E c \in {call.component}, r \in {ret.get_all_dependents} :
         /\ ListsEachOnce(r, TransitiveDependents(c))
         /\ ~InList(c, r)
         /\ \A i \in DOMAIN r : \A a \in GraphComponents :
              DependsOn(a, r[i]) => \E j \in 1..(i - 1) : r[j] = a

\* C21: for every component c of the DEPENDENCIES graph, get_all_dependencies(c)
\* returns each transitive dependency of c exactly once, every component after
\* all of its own dependencies, with c last; get_all_dependents(c) returns each
\* transitive dependent of c exactly once, never c itself, every component
\* after all of the components that depend on it; and every call of either
\* traversal returns.
C21_TraversalsOrderedAndTerminate ==
    /\ [](call.component \in GraphComponents => BuildOrder /\ ClearOrder)
    /\ <>(DependenciesReturned \/ DependentsReturned)

\* get_all_dependents("aws-c-common") has returned its eleven dependents, which
\* reach aws-c-common along several paths each.
C21_Witness ==
    /\ call.of = "get_all_dependents"
    /\ call.component = "aws-c-common"
    /\ DependentsReturned
    /\ Len(ret.get_all_dependents) = 11
    /\ ret.get_all_dependents[1] = "runner-s3-c"

====
